---------------------------- MODULE Spec2Model ----------------------------
(***************************************************************************)
(* Model of src/src/streamlit_app.py: TextProcessor, DistractorGenerator,  *)
(* QuizGenerator.generate_quiz and StreamlitQuizApp.export_questions.      *)
(*                                                                         *)
(* A Python str is a sequence of one-character strings, so that split,     *)
(* strip, lower, join and the f-string templates are computed character by *)
(* character as the code computes them.  A raised exception is a result    *)
(* record [kind |-> "error", error |-> <exception class>].                 *)
(***************************************************************************)
EXTENDS Integers, Sequences, FiniteSets, TLC

VARIABLES
    \* TextProcessor.extract_sentences called on its own
    text,              \* the argument
    segPc,             \* "call" | "returned" | "off"
    segOut,            \* the returned list
    \* DistractorGenerator's two static methods called on their own
    correct_answer,    \* first argument
    num,               \* num_distractors / num_options
    distPc,            \* "call" | "short_returned" | "mc_returned" | "off"
    distOut,           \* how the call ended
    \* QuizGenerator.generate_quiz, called from setup_ui
    file_data,         \* the uploaded text
    question_counts,   \* the dict built at lines 130-134
    quizPc,            \* "call" | "short_loop" | "mc_loop" | "done" | "off"
    sentences,         \* local of generate_quiz
    questions,         \* local of generate_quiz
    i,                 \* loop counter
    quizOut,           \* what the call produced: a list, or an exception
    run,               \* 1 for the first call, 2 for the repeated call
    firstOut,          \* what the first call produced
    stream,            \* outputs of the random generator since seeding
    rngPos,            \* how many of them the current call has consumed
    \* StreamlitQuizApp.export_questions
    expQuestions,      \* the selected questions
    format_type,       \* the format argument
    expPc,             \* "call" | "returned" | "off"
    expOut             \* the returned value

vars == << text, segPc, segOut, correct_answer, num, distPc, distOut,
           file_data, question_counts, quizPc, sentences, questions, i,
           quizOut, run, firstOut, stream, rngPos,
           expQuestions, format_type, expPc, expOut >>

segVars  == << text, segPc, segOut >>
distVars == << correct_answer, num, distPc, distOut >>
quizVars == << file_data, question_counts, quizPc, sentences, questions, i,
               quizOut, run, firstOut, stream, rngPos >>
expVars  == << expQuestions, format_type, expPc, expOut >>

---------------------------------------------------------------------------
(* Bounds of the model *)

MaxTextLen == 4      \* longest text given to extract_sentences
MaxAnsLen == 3       \* longest correct_answer given to the distractor methods
MaxNum == 5          \* largest num_distractors / num_options
MaxFileLen == 3      \* longest uploaded text given to generate_quiz
MaxCount == 2        \* largest count per question kind
MaxExport == 3       \* most questions given to export_questions

---------------------------------------------------------------------------
(* Python str and list operations *)

Whitespace == {" ", "\n"}

Min(a, b) == IF a < b THEN a ELSE b
Max(a, b) == IF a > b THEN a ELSE b

\* All sequences over S of length at most n
SeqsUpTo(S, n) == UNION { [1..k -> S] : k \in 0..n }

UpperLetters == << "A", "B", "C", "D", "E", "F", "G", "H", "I", "J", "K", "L", "M",
                   "N", "O", "P", "Q", "R", "S", "T", "U", "V", "W", "X", "Y", "Z" >>
LowerLetters == << "a", "b", "c", "d", "e", "f", "g", "h", "i", "j", "k", "l", "m",
                   "n", "o", "p", "q", "r", "s", "t", "u", "v", "w", "x", "y", "z" >>

\* str.lower() on one character
LowerChar(c) ==
    IF \E k \in 1..26 : UpperLetters[k] = c
    THEN LowerLetters[CHOOSE k \in 1..26 : UpperLetters[k] = c]
    ELSE c

\* str.lower()
Lower(s) == [k \in 1..Len(s) |-> LowerChar(s[k])]

\* str.strip(): drop leading and trailing whitespace
RECURSIVE LStrip(_)
LStrip(s) == IF s # << >> /\ Head(s) \in Whitespace THEN LStrip(Tail(s)) ELSE s

RECURSIVE RStrip(_)
RStrip(s) ==
    IF s # << >> /\ s[Len(s)] \in Whitespace
    THEN RStrip(SubSeq(s, 1, Len(s) - 1))
    ELSE s

Strip(s) == RStrip(LStrip(s))

\* str.split(sep) for a one-character sep: always at least one piece, empty
\* pieces kept
RECURSIVE SplitOn(_, _)
SplitOn(s, sep) ==
    IF \E k \in 1..Len(s) : s[k] = sep
    THEN LET p == CHOOSE k \in 1..Len(s) : s[k] = sep /\ \A j \in 1..(k - 1) : s[j] # sep
         IN  << SubSeq(s, 1, p - 1) >> \o SplitOn(SubSeq(s, p + 1, Len(s)), sep)
    ELSE << s >>

\* str.split() with no argument: split on runs of whitespace, no empty pieces
RECURSIVE SplitWords(_)
SplitWords(s) ==
    LET t == LStrip(s)
    IN  IF t = << >> THEN << >>
        ELSE IF \E k \in 1..Len(t) : t[k] \in Whitespace
        THEN LET p == CHOOSE k \in 1..Len(t) :
                        t[k] \in Whitespace /\ \A j \in 1..(k - 1) : t[j] \notin Whitespace
             IN  << SubSeq(t, 1, p - 1) >> \o SplitWords(SubSeq(t, p + 1, Len(t)))
        ELSE << t >>

\* sep.join(parts)
RECURSIVE Join(_, _)
Join(sep, parts) ==
    IF parts = << >> THEN << >>
    ELSE IF Len(parts) = 1 THEN parts[1]
    ELSE parts[1] \o sep \o Join(sep, Tail(parts))

\* seq[::-1]
Reverse(s) == [k \in 1..Len(s) |-> s[Len(s) + 1 - k]]

\* seq[:stop], with Python's meaning of a negative stop
SliceTo(s, stop) ==
    IF stop >= 0 THEN SubSeq(s, 1, Min(stop, Len(s)))
    ELSE SubSeq(s, 1, Max(Len(s) + stop, 0))

Digits == << "0", "1", "2", "3", "4", "5", "6", "7", "8", "9" >>

\* str(n) for n >= 0, as an f-string formats an int
RECURSIVE Dec(_)
Dec(n) == IF n < 10 THEN << Digits[n + 1] >> ELSE Dec(n \div 10) \o << Digits[(n % 10) + 1] >>

\* How a call ends: a returned value, or an exception of class e left the callee
Returned(v) == [kind |-> "ok", error |-> "", value |-> v]
Raised(e) == [kind |-> "error", error |-> e, value |-> << >>]
NoResult == [kind |-> "none", error |-> "", value |-> << >>]

---------------------------------------------------------------------------
(* TextProcessor *)

\* Python's truth value of a str: non-empty
Truthy(s) == s # << >>

\* [s.strip() for s in pieces if s.strip()]
RECURSIVE StripAndKeep(_)
StripAndKeep(pieces) ==
    IF pieces = << >> THEN << >>
    ELSE (IF Truthy(Strip(Head(pieces))) THEN << Strip(Head(pieces)) >> ELSE << >>)
         \o StripAndKeep(Tail(pieces))

\* extract_sentences without the "if s.strip()" filter of line 22
extract_sentences_unfiltered(t) ==
    LET pieces == SplitOn(t, ".") IN [k \in 1..Len(pieces) |-> Strip(pieces[k])]

\* sentences = [s.strip() for s in text.split('.') if s.strip()]
extract_sentences(t) == StripAndKeep(SplitOn(t, "."))

TextAlphabet == {"a", "b", " ", "\n", "."}
Texts == SeqsUpTo(TextAlphabet, MaxTextLen)

SegInit ==
    /\ text \in Texts
    /\ segPc = "call"
    /\ segOut = << >>

SegOff ==
    /\ text = << >>
    /\ segPc = "off"
    /\ segOut = << >>

ExtractSentences ==
    /\ segPc = "call"
    /\ segOut' = extract_sentences(text)
    /\ segPc' = "returned"
    /\ UNCHANGED << text, distVars, quizVars, expVars >>

---------------------------------------------------------------------------
(* DistractorGenerator *)

DefaultNumDistractors == 3
DefaultNumOptions == 4

\* for _ in range(n): distractors.append(x)
Repeated(x, n) == [k \in 1..Max(n, 0) |-> x]

\* lines 33-40
generate_short_answer_distractors(correct, num_distractors) ==
    LET words == SplitWords(Lower(correct))
        distractor == Join(<< " " >>, Reverse(words))
        distractors == Repeated(distractor, num_distractors)
    IN  SliceTo(distractors, num_distractors)

S_but_faster == << " ", "b", "u", "t", " ", "f", "a", "s", "t", "e", "r" >>
S_Not == << "N", "o", "t", " " >>
S_and_slower == << " ", "a", "n", "d", " ", "s", "l", "o", "w", "e", "r" >>

\* the list literal of lines 44-48
McTemplates(correct) ==
    << correct \o S_but_faster, S_Not \o correct, correct \o S_and_slower >>

\* lines 43-49
generate_multiple_choice_distractors(correct, num_options) ==
    << correct >> \o SliceTo(McTemplates(correct), num_options - 1)

AnswerAlphabet == {"a", "b", "A", " "}
Answers == SeqsUpTo(AnswerAlphabet, MaxAnsLen)

DistInit ==
    /\ correct_answer \in Answers
    /\ num \in 0..MaxNum
    /\ distPc = "call"
    /\ distOut = NoResult

DistOff ==
    /\ correct_answer = << >>
    /\ num = 0
    /\ distPc = "off"
    /\ distOut = NoResult

GenerateShortAnswerDistractors ==
    /\ distPc = "call"
    /\ distOut' = Returned(generate_short_answer_distractors(correct_answer, num))
    /\ distPc' = "short_returned"
    /\ UNCHANGED << correct_answer, num, segVars, quizVars, expVars >>

GenerateMultipleChoiceDistractors ==
    /\ distPc = "call"
    /\ distOut' = Returned(generate_multiple_choice_distractors(correct_answer, num))
    /\ distPc' = "mc_returned"
    /\ UNCHANGED << correct_answer, num, segVars, quizVars, expVars >>

---------------------------------------------------------------------------
(* QuizGenerator *)

S_main_idea == << "W", "h", "a", "t", " ", "i", "s", " ", "t", "h", "e", " ", "m", "a", "i", "n",
                  " ", "i", "d", "e", "a", " ", "o", "f", ":", " ", "'" >>
S_best_describes == << "W", "h", "a", "t", " ", "b", "e", "s", "t", " ", "d", "e", "s", "c", "r",
                       "i", "b", "e", "s", ":", " ", "'" >>
S_quote_qmark == << "'", "?" >>
S_Accurate == << "A", "c", "c", "u", "r", "a", "t", "e" >>
S_Partially_Accurate == << "P", "a", "r", "t", "i", "a", "l", "l", "y", " ",
                           "A", "c", "c", "u", "r", "a", "t", "e" >>
S_Incorrect == << "I", "n", "c", "o", "r", "r", "e", "c", "t" >>

\* Question(...) of lines 63-70; correct_answers holds Python's 0-based indices
ShortTextQuestion(sentence) ==
    [ text |-> S_main_idea \o sentence \o S_quote_qmark,
      type |-> "short_text",
      answers |-> << >>,
      correct_answers |-> << 0 >>,
      distractors |-> generate_short_answer_distractors(sentence, DefaultNumDistractors),
      metadata |-> [source |-> "document"] ]

\* Question(...) of lines 76-83
MultipleChoiceQuestion(sentence) ==
    [ text |-> S_best_describes \o sentence \o S_quote_qmark,
      type |-> "multiple_choice",
      answers |-> << S_Accurate, S_Partially_Accurate, S_Incorrect >>,
      correct_answers |-> << 0 >>,
      distractors |-> generate_multiple_choice_distractors(S_Accurate, DefaultNumOptions),
      metadata |-> [source |-> "document"] ]

\* generate_quiz without line 58's fresh list: the list of the previous call is kept
StaleQuestions == questions

\* questions = [] (line 58)
NewQuestions == << >>

\* random.choice(seq) for a non-empty seq, given the generator's next output r
Choice(seq, r) == seq[(r % Len(seq)) + 1]

FileAlphabet == {"a", "b", " ", "."}
Files == SeqsUpTo(FileAlphabet, MaxFileLen)

\* question_counts as setup_ui builds it (lines 130-134); number_input has min_value=0
Requests == [ {"short_text", "multiple_choice", "ordering"} -> 0..MaxCount ]

QuizInit ==
    /\ file_data \in Files
    /\ question_counts \in Requests
    /\ quizPc = "call"
    /\ sentences = << >>
    /\ questions = << >>
    /\ i = 0
    /\ quizOut = NoResult
    /\ run = 1
    /\ firstOut = NoResult
    /\ stream = << >>
    /\ rngPos = 0

QuizOff ==
    /\ file_data = << >>
    /\ question_counts = [k \in {"short_text", "multiple_choice", "ordering"} |-> 0]
    /\ quizPc = "off"
    /\ sentences = << >>
    /\ questions = << >>
    /\ i = 0
    /\ quizOut = NoResult
    /\ run = 1
    /\ firstOut = NoResult
    /\ stream = << >>
    /\ rngPos = 0

\* lines 57-58: entry of generate_quiz
EnterGenerateQuiz ==
    /\ quizPc = "call"
    /\ sentences' = extract_sentences(file_data)
    /\ questions' = NewQuestions
    /\ i' = 0
    /\ quizPc' = "short_loop"
    /\ UNCHANGED << file_data, question_counts, quizOut, run, firstOut, stream, rngPos,
                    segVars, distVars, expVars >>

\* The generator's next output: the one the seed fixed if this position of the
\* stream was drawn before, any value otherwise.
NextRandom(r) ==
    /\ IF rngPos < Len(stream)
       THEN r = stream[rngPos + 1] /\ stream' = stream
       ELSE stream' = Append(stream, r)
    /\ rngPos' = rngPos + 1

\* random.choice(sentences) on an empty list: IndexError leaves generate_quiz
RaiseIndexError ==
    /\ quizOut' = Raised("IndexError")
    /\ quizPc' = "done"
    /\ UNCHANGED << file_data, question_counts, sentences, questions, i, run, firstOut,
                    stream, rngPos, segVars, distVars, expVars >>

\* one iteration of the loop of lines 61-71
ShortTextIteration ==
    /\ quizPc = "short_loop"
    /\ i < question_counts["short_text"]
    /\ sentences # << >>
    /\ \E r \in 0..(Len(sentences) - 1) :
          /\ NextRandom(r)
          /\ questions' = Append(questions, ShortTextQuestion(Choice(sentences, r)))
    /\ i' = i + 1
    /\ UNCHANGED << file_data, question_counts, quizPc, sentences, quizOut, run, firstOut,
                    segVars, distVars, expVars >>

ShortTextIndexError ==
    /\ quizPc = "short_loop"
    /\ i < question_counts["short_text"]
    /\ sentences = << >>
    /\ RaiseIndexError

\* range(question_counts['short_text']) is exhausted; line 74 starts the next loop
ShortTextLoopEnd ==
    /\ quizPc = "short_loop"
    /\ i >= question_counts["short_text"]
    /\ i' = 0
    /\ quizPc' = "mc_loop"
    /\ UNCHANGED << file_data, question_counts, sentences, questions, quizOut, run, firstOut,
                    stream, rngPos, segVars, distVars, expVars >>

\* one iteration of the loop of lines 74-84
MultipleChoiceIteration ==
    /\ quizPc = "mc_loop"
    /\ i < question_counts["multiple_choice"]
    /\ sentences # << >>
    /\ \E r \in 0..(Len(sentences) - 1) :
          /\ NextRandom(r)
          /\ questions' = Append(questions, MultipleChoiceQuestion(Choice(sentences, r)))
    /\ i' = i + 1
    /\ UNCHANGED << file_data, question_counts, quizPc, sentences, quizOut, run, firstOut,
                    segVars, distVars, expVars >>

MultipleChoiceIndexError ==
    /\ quizPc = "mc_loop"
    /\ i < question_counts["multiple_choice"]
    /\ sentences = << >>
    /\ RaiseIndexError

\* line 86: return questions
ReturnQuestions ==
    /\ quizPc = "mc_loop"
    /\ i >= question_counts["multiple_choice"]
    /\ quizOut' = Returned(questions)
    /\ quizPc' = "done"
    /\ UNCHANGED << file_data, question_counts, sentences, questions, i, run, firstOut,
                    stream, rngPos, segVars, distVars, expVars >>

\* The caller seeds the generator as before and calls generate_quiz again with
\* the same file_data and question_counts; the QuizGenerator object is the same.
CallAgain ==
    /\ quizPc = "done"
    /\ run = 1
    /\ run' = 2
    /\ firstOut' = quizOut
    /\ quizOut' = NoResult
    /\ rngPos' = 0
    /\ quizPc' = "call"
    /\ UNCHANGED << file_data, question_counts, sentences, questions, i, stream,
                    segVars, distVars, expVars >>

---------------------------------------------------------------------------
(* StreamlitQuizApp.export_questions *)

S_QMark == << ":", ":", "Q" >>
S_ColonColon == << ":", ":" >>
S_OpenBrace == << "{" >>
S_CloseBrace == << "}" >>
S_DollarA == << "$", "A", "=" >>
S_NL == << "\n" >>
S_Answers == << "\n", "A", "n", "s", "w", "e", "r", "s", ":", " " >>
S_CommaSpace == << ",", " " >>

\* json.dumps(v): the JSON document that denotes v, kept as the value it denotes
JsonDumps(v) == [json |-> v]

\* f"{q.text}\nAnswers: {', '.join(q.answers)}" (line 199)
TxtRecord(q) == q.text \o S_Answers \o Join(S_CommaSpace, q.answers)

\* lines 205-208 without the test of line 204
GiftBlockAnyKind(q, idx) ==
    << << ":", ":", "Q" >> \o Dec(idx) \o << ":", ":" >> \o q.text \o << "{" >>,
       << "$", "A", "=" >> \o Dec(q.correct_answers[1] + 1) >>
    \o (q.answers \o q.distractors)
    \o << << "}" >> >>

\* what lines 204-208 append for questions[idx] (idx is 1-based here, so that
\* Python's i+1 is idx)
GiftBlock(q, idx) ==
    IF q.type = "multiple_choice"
    THEN << S_QMark \o Dec(idx) \o S_ColonColon \o q.text \o S_OpenBrace,
            S_DollarA \o Dec(q.correct_answers[1] + 1) >>
         \o (q.answers \o q.distractors)
         \o << S_CloseBrace >>
    ELSE << >>

\* gift_format after the loop of lines 203-208 has handled questions idx..len
RECURSIVE GiftLines(_, _)
GiftLines(qs, idx) ==
    IF idx > Len(qs) THEN << >>
    ELSE GiftBlock(qs[idx], idx) \o GiftLines(qs, idx + 1)

\* lines 195-209
export_questions(qs, fmt) ==
    IF fmt = "json" THEN JsonDumps(qs)
    ELSE IF fmt = "txt" THEN Join(<< "\n", "\n" >>, [k \in 1..Len(qs) |-> TxtRecord(qs[k])])
    ELSE IF fmt = "gift" THEN Join(S_NL, GiftLines(qs, 1))
    ELSE "None"

\* a Question of the third kind the dataclass names (line 11)
OrderingQuestion(sentence) ==
    [ text |-> sentence,
      type |-> "ordering",
      answers |-> << sentence, sentence \o sentence >>,
      correct_answers |-> << 0 >>,
      distractors |-> << >>,
      metadata |-> [source |-> "document"] ]

ExportSentences == { << "a" >>, << "b", " ", "a" >> }

ExportPool ==
    { ShortTextQuestion(s) : s \in ExportSentences }
    \cup { MultipleChoiceQuestion(s) : s \in ExportSentences }
    \cup { OrderingQuestion(<< "a" >>) }

\* format_types of line 181, lower-cased at line 186
Formats == {"json", "txt", "gift"}

ExpInit ==
    /\ expQuestions \in SeqsUpTo(ExportPool, MaxExport)
    /\ format_type \in Formats
    /\ expPc = "call"
    /\ expOut = << >>

ExpOff ==
    /\ expQuestions = << >>
    /\ format_type = "json"
    /\ expPc = "off"
    /\ expOut = << >>

ExportQuestions ==
    /\ expPc = "call"
    /\ expOut' = export_questions(expQuestions, format_type)
    /\ expPc' = "returned"
    /\ UNCHANGED << expQuestions, format_type, segVars, distVars, quizVars >>

---------------------------------------------------------------------------
(* Specifications *)

\* generate_quiz as setup_ui calls it, then called once more with the same seed
Init == QuizInit /\ SegOff /\ DistOff /\ ExpOff

Next ==
    \/ EnterGenerateQuiz
    \/ ShortTextIteration
    \/ ShortTextIndexError
    \/ ShortTextLoopEnd
    \/ MultipleChoiceIteration
    \/ MultipleChoiceIndexError
    \/ ReturnQuestions
    \/ CallAgain

Spec == Init /\ [][Next]_vars

\* extract_sentences on every text within the bound
InitSeg == SegInit /\ DistOff /\ QuizOff /\ ExpOff

NextSeg == ExtractSentences

SpecSeg == InitSeg /\ [][NextSeg]_vars

\* the two distractor methods on every argument pair within the bounds
InitDist == DistInit /\ SegOff /\ QuizOff /\ ExpOff

NextDist ==
    \/ GenerateShortAnswerDistractors
    \/ GenerateMultipleChoiceDistractors

SpecDist == InitDist /\ [][NextDist]_vars

\* export_questions on every selection within the bound
InitExport == ExpInit /\ SegOff /\ DistOff /\ QuizOff

NextExport == ExportQuestions

SpecExport == InitExport /\ [][NextExport]_vars

---------------------------------------------------------------------------
(* Properties *)

Kinds == << "short_text", "multiple_choice", "ordering" >>

\* s is empty or holds whitespace only
Blank(s) == \A k \in 1..Len(s) : s[k] \in Whitespace

\* the elements of parts occur in t from position from on, one after the other
\* without overlap, in the order of parts
RECURSIVE OccursInOrder(_, _, _)
OccursInOrder(parts, t, from) ==
    IF parts = << >> THEN TRUE
    ELSE LET h == Head(parts)
         IN  \E p \in from..(Len(t) - Len(h) + 1) :
                /\ SubSeq(t, p, p + Len(h) - 1) = h
                /\ OccursInOrder(Tail(parts), t, p + Len(h))

\* s is t without its leading and trailing whitespace
IsTrimmed(s, t) ==
    /\ s # << >>
    /\ s[1] \notin Whitespace
    /\ s[Len(s)] \notin Whitespace
    /\ \E p \in 1..Len(t) :
          /\ p + Len(s) - 1 <= Len(t)
          /\ SubSeq(t, p, p + Len(s) - 1) = s
          /\ Blank(SubSeq(t, 1, p - 1))
          /\ Blank(SubSeq(t, p + Len(s), Len(t)))

AnyRequested == \E k \in DOMAIN question_counts : question_counts[k] > 0

CountOfKind(qs, kind) == Cardinality({ k \in 1..Len(qs) : qs[k].type = kind })

\* C1: generate_quiz on a text with no sentence and some count > 0 fails with
\* EmptyCorpus: it returns no list and raises nothing else.
C1_EmptyCorpus ==
    (quizPc = "done" /\ extract_sentences(file_data) = << >> /\ AnyRequested)
        => (quizOut.kind = "error" /\ quizOut.error = "EmptyCorpus")

\* C2: generate_multiple_choice_distractors(correct, k) with k >= 1 returns
\* exactly k entries, the first equal to correct, all pairwise distinct.
C2_ExactlyKDistinct ==
    (distPc = "mc_returned" /\ num >= 1)
        => /\ distOut.kind = "ok"
           /\ Len(distOut.value) = num
           /\ distOut.value[1] = correct_answer
           /\ \A a, b \in 1..Len(distOut.value) :
                 a # b => distOut.value[a] # distOut.value[b]

\* C3: generate_short_answer_distractors(correct, n), correct holding at least
\* one word and n >= 0, returns exactly n entries, none equal to correct.
C3_NoneEqualsCorrect ==
    (distPc = "short_returned" /\ ~Blank(correct_answer))
        => /\ distOut.kind = "ok"
           /\ Len(distOut.value) = num
           /\ \A k \in 1..Len(distOut.value) : distOut.value[k] # correct_answer

\* C4: generate_multiple_choice_distractors(correct, 0) fails with
\* InvalidArgument, and no call returns more than num_options elements.
C4_InvalidArgument ==
    distPc = "mc_returned"
        => /\ num = 0 => (distOut.kind = "error" /\ distOut.error = "InvalidArgument")
           /\ distOut.kind = "ok" => Len(distOut.value) <= num

\* C5: generate_quiz with a positive count for the ordering kind fails with
\* UnsupportedQuestionKind.  Stated for texts that hold a sentence: what happens
\* on a text without one is C1's subject.
C5_UnsupportedKind ==
    (quizPc = "done" /\ question_counts["ordering"] > 0
                    /\ extract_sentences(file_data) # << >>)
        => (quizOut.kind = "error" /\ quizOut.error = "UnsupportedQuestionKind")

\* C6: in every returned question with answers, no distractor equals a correct
\* answer's text.
C6_DistractorsDisjoint ==
    (quizPc = "done" /\ quizOut.kind = "ok")
        => \A k \in 1..Len(quizOut.value) :
              LET q == quizOut.value[k]
              IN  q.answers # << >>
                    => \A c \in 1..Len(q.correct_answers), d \in 1..Len(q.distractors) :
                          q.distractors[d] # q.answers[q.correct_answers[c] + 1]

\* C7: the returned questions are grouped by kind in the order of the kinds in
\* question_counts, and each kind contributes exactly its requested count.
C7_GroupedByKind ==
    (quizPc = "done" /\ quizOut.kind = "ok")
        => /\ \A a, b \in 1..Len(quizOut.value) :
                 a < b => \E ka, kb \in 1..Len(Kinds) :
                             /\ ka <= kb
                             /\ quizOut.value[a].type = Kinds[ka]
                             /\ quizOut.value[b].type = Kinds[kb]
           /\ \A k \in 1..Len(Kinds) :
                 CountOfKind(quizOut.value, Kinds[k]) = question_counts[Kinds[k]]

\* the lines of the exported text
ExportLines == SplitOn(expOut, "\n")

\* input positions of the multiple_choice questions, ascending
RECURSIVE McPositions(_, _)
McPositions(qs, k) ==
    IF k > Len(qs) THEN << >>
    ELSE (IF qs[k].type = "multiple_choice" THEN << k >> ELSE << >>) \o McPositions(qs, k + 1)

BlockSize(q) == 3 + Len(q.answers) + Len(q.distractors)

\* the line on which the j-th block starts, the blocks filling the text
RECURSIVE BlockStart(_, _, _)
BlockStart(qs, pos, j) ==
    IF j = 1 THEN 1 ELSE BlockStart(qs, pos, j - 1) + BlockSize(qs[pos[j - 1]])

IsMarkerLine(l) == Len(l) >= 4 /\ SubSeq(l, 1, 3) = << ":", ":", "Q" >> /\ l[Len(l)] = "{"

\* C8: the gift export holds one block per multiple_choice question and nothing
\* for the other kinds; a block is the marker line, the $A= line with
\* correct_answers[0]+1, the answers, the distractors, and "}".
C8_GiftBlocks ==
    (expPc = "returned" /\ format_type = "gift")
        => LET pos == McPositions(expQuestions, 1)
               ls == ExportLines
           IN  /\ Cardinality({ k \in 1..Len(ls) : IsMarkerLine(ls[k]) }) = Len(pos)
               /\ Cardinality({ k \in 1..Len(ls) : ls[k] = << "}" >> }) = Len(pos)
               /\ pos = << >> => expOut = << >>
               /\ pos # << >> =>
                     Len(ls) = BlockStart(expQuestions, pos, Len(pos))
                               + BlockSize(expQuestions[pos[Len(pos)]]) - 1
               /\ \A j \in 1..Len(pos) :
                     LET q == expQuestions[pos[j]]
                         b == BlockStart(expQuestions, pos, j)
                         na == Len(q.answers)
                         nd == Len(q.distractors)
                     IN  /\ ls[b] = << ":", ":", "Q" >> \o Dec(pos[j]) \o << ":", ":" >>
                                    \o q.text \o << "{" >>
                         /\ ls[b + 1] = << "$", "A", "=" >> \o Dec(q.correct_answers[1] + 1)
                         /\ SubSeq(ls, b + 2, b + 1 + na) = q.answers
                         /\ SubSeq(ls, b + 2 + na, b + 1 + na + nd) = q.distractors
                         /\ ls[b + 2 + na + nd] = << "}" >>

\* two multiple_choice questions and one short_text question were exported as gift
C8_Witness ==
    /\ expPc = "returned"
    /\ format_type = "gift"
    /\ Len(expQuestions) = 3
    /\ CountOfKind(expQuestions, "multiple_choice") = 2
    /\ CountOfKind(expQuestions, "short_text") = 1
    /\ expQuestions[1].type = "short_text"

\* C9: generate_quiz called twice with the same text, the same counts and the
\* same seed produces the same question list.
C9_Deterministic ==
    (run = 2 /\ quizPc = "done") => quizOut = firstOut

\* the repeated call returned two or more questions drawn from distinct sentences
C9_Witness ==
    /\ run = 2
    /\ quizPc = "done"
    /\ quizOut.kind = "ok"
    /\ Len(quizOut.value) >= 2
    /\ Len(sentences) >= 2
    /\ \E a, b \in 1..Len(quizOut.value) :
          /\ quizOut.value[a].type = quizOut.value[b].type
          /\ quizOut.value[a].text # quizOut.value[b].text

\* C10: extract_sentences returns no empty or whitespace-only string, keeps the
\* order of the text, returns the whole trimmed text when there is no period,
\* and returns nothing for an empty or whitespace-only text.
C10_ExtractSentences ==
    segPc = "returned"
        => /\ \A k \in 1..Len(segOut) : ~Blank(segOut[k])
           /\ OccursInOrder(segOut, text, 1)
           /\ ((\A k \in 1..Len(text) : text[k] # ".") /\ ~Blank(text))
                 => (Len(segOut) = 1 /\ IsTrimmed(segOut[1], text))
           /\ Blank(text) => segOut = << >>

\* two different sentences came out of a text that starts with whitespace
C10_Witness ==
    /\ segPc = "returned"
    /\ Len(segOut) = 2
    /\ segOut[1] # segOut[2]
    /\ text[1] \in Whitespace

=============================================================================
